---- MODULE Spec2Model ----
(***************************************************************************)
(* Recipe Book Manager: the catalog store (RecipeBookManager) over the     *)
(* remote document collections "recipes" and "favorites", and the console  *)
(* session loop (RecipeBookUI.run) that drives it.                         *)
(*                                                                         *)
(* Text is modelled at two levels.  A title is a sequence of one-character *)
(* strings, so that the slug derivation can be computed character by       *)
(* character; identifiers (recipe ids, user ids, favorite ids) are strings *)
(* built by concatenation, exactly as the f-strings of the source build    *)
(* them.                                                                   *)
(***************************************************************************)
EXTENDS Integers, Sequences, FiniteSets, TLC

VARIABLES recipes, favorites, clock, last, ui

vars == <<recipes, favorites, clock, last, ui>>

(***************************************************************************)
(* Bounds of the model.                                                    *)
(***************************************************************************)
\* Number of server timestamps the store hands out (one per recipe or
\* favorite record written) before the model stops writing new records.
MaxClock == 3
\* Number of recipe documents the "recipes" collection may hold at once.
MaxRecipes == 2
\* A remote call of an operation may fail; the failing call is the f-th one,
\* f in 1..MaxFail, or none (f = 0).  (An operation that makes one remote
\* call takes f in 0..1.)
MaxFail == 2

(***************************************************************************)
(* Characters and strings.                                                 *)
(***************************************************************************)
UpperCase == <<"A","B","C","D","E","F","G","H","I","J","K","L","M",
               "N","O","P","Q","R","S","T","U","V","W","X","Y","Z">>
LowerCase == <<"a","b","c","d","e","f","g","h","i","j","k","l","m",
               "n","o","p","q","r","s","t","u","v","w","x","y","z">>
Digits == <<"0","1","2","3","4","5","6","7","8","9">>
WhiteSpace == {" ", "\t", "\n", "\r", "\f"}

Range(s) == {s[i] : i \in DOMAIN s}

\* str.lower() on one character
LowerChar(c) ==
  IF c \in Range(UpperCase)
    THEN LowerCase[CHOOSE i \in DOMAIN UpperCase : UpperCase[i] = c]
    ELSE c

\* str.lower()
Lower(s) == [i \in DOMAIN s |-> LowerChar(s[i])]

\* the characters the class [^a-z0-9\s-] does NOT match
IsSlugChar(c) ==
  c \in Range(LowerCase) \cup Range(Digits) \cup WhiteSpace \cup {"-"}

IsSpace(c) == c \in WhiteSpace

RECURSIVE LStrip(_)
LStrip(s) == IF s # <<>> /\ IsSpace(Head(s)) THEN LStrip(Tail(s)) ELSE s

RECURSIVE RStrip(_)
RStrip(s) ==
  IF s # <<>> /\ IsSpace(s[Len(s)]) THEN RStrip(SubSeq(s, 1, Len(s) - 1)) ELSE s

\* str.strip()
Strip(s) == RStrip(LStrip(s))

\* re.sub(r'[^a-z0-9\s-]', '', s)
RemoveNonSlug(s) == SelectSeq(s, IsSlugChar)

\* re.sub(r'\s+', '-', s): every maximal run of whitespace becomes one hyphen
RECURSIVE SpacesToHyphen(_)
SpacesToHyphen(s) ==
  IF s = <<>> THEN <<>>
  ELSE IF IsSpace(Head(s)) THEN <<"-">> \o SpacesToHyphen(LStrip(s))
  ELSE <<Head(s)>> \o SpacesToHyphen(Tail(s))

\* re.sub(r'-+', '-', s): every maximal run of hyphens becomes one hyphen
RECURSIVE CollapseHyphens(_)
CollapseHyphens(s) ==
  IF s = <<>> THEN <<>>
  ELSE IF Head(s) = "-" /\ Len(s) > 1 /\ s[2] = "-" THEN CollapseHyphens(Tail(s))
  ELSE <<Head(s)>> \o CollapseHyphens(Tail(s))

\* the slice length of clean_title[:50]
SlugMaxLen == 50

\* s[:n]
Truncate(s, n) == SubSeq(s, 1, IF Len(s) < n THEN Len(s) ELSE n)

\* a character sequence as a string
RECURSIVE Str(_)
Str(s) == IF s = <<>> THEN "" ELSE Head(s) \o Str(Tail(s))

\* base_id of generate_recipe_id
SlugBase(title) ==
  Str(Truncate(CollapseHyphens(SpacesToHyphen(Strip(RemoveNonSlug(Lower(title))))),
               SlugMaxLen))

\* f"{base_id}-{counter}"
Suffixed(base_id, counter) == base_id \o "-" \o ToString(counter)

(***************************************************************************)
(* The remote document store: a collection is a function from document id  *)
(* to the document's field mapping.                                        *)
(***************************************************************************)
\* doc.exists
DocExists(coll, id) == id \in DOMAIN coll

\* document(id).set(data)
DocSet(coll, id, data) ==
  [k \in DOMAIN coll \cup {id} |-> IF k = id THEN data ELSE coll[k]]

\* document(id).update(updates): a partial field merge
DocUpdate(coll, id, updates) ==
  [k \in DOMAIN coll |->
     IF k = id
       THEN [fld \in DOMAIN coll[k] \cup DOMAIN updates |->
               IF fld \in DOMAIN updates THEN updates[fld] ELSE coll[k][fld]]
       ELSE coll[k]]

\* document(id).delete()
DocDelete(coll, id) == [k \in DOMAIN coll \ {id} |-> coll[k]]

\* the documents of a query, in the order stream() yields them
RECURSIVE Stream(_, _)
Stream(coll, ids) ==
  IF ids = {} THEN <<>>
  ELSE LET id == CHOOSE x \in ids : TRUE
       IN  <<[id |-> id, data |-> coll[id]]>> \o Stream(coll, ids \ {id})

\* Python's None
None == [none |-> TRUE]

\* The store as one value, and the outcome of an operation on it: the store
\* after it, the value returned, whether an exception left the operation
\* instead, and the number of remote calls it made.
Store(r, fv, c) == [recipes |-> r, favorites |-> fv, clock |-> c]

Return(S, v, n) ==
  [recipes |-> S.recipes, favorites |-> S.favorites, clock |-> S.clock,
   ret |-> v, exc |-> FALSE, n |-> n]

Raise(S, n) ==
  [recipes |-> S.recipes, favorites |-> S.favorites, clock |-> S.clock,
   ret |-> None, exc |-> TRUE, n |-> n]

\* the failure index as seen by the code that runs after n remote calls
After(f, n) == IF f > n THEN f - n ELSE 0

(***************************************************************************)
(* RecipeBookManager.  Every operation takes the store S and the failure   *)
(* index f of the call (0: every remote call succeeds; k: the k-th remote  *)
(* call raises), and yields an outcome.                                    *)
(***************************************************************************)
\* recipe_exists: one remote read
recipe_exists(S, recipe_id, f) ==
  IF f = 1 THEN Raise(S, 1) ELSE Return(S, DocExists(S.recipes, recipe_id), 1)

\* the while loop of generate_recipe_id, entered with n remote calls made
RECURSIVE GenerateLoop(_, _, _, _, _, _)
GenerateLoop(S, base_id, recipe_id, counter, n, f) ==
  LET e == recipe_exists(S, recipe_id, After(f, n))
  IN  IF e.exc THEN Raise(S, n + 1)
      ELSE IF e.ret
        THEN GenerateLoop(S, base_id, Suffixed(base_id, counter), counter + 1, n + 1, f)
        ELSE Return(S, recipe_id, n + 1)

\* the base id taken without looking for a recipe that has it
generate_recipe_id_Unchecked(S, title, user_id, f) ==
  Return(S, SlugBase(title), 0)

generate_recipe_id(S, title, user_id, f) ==
  LET base_id == SlugBase(title)
  IN  GenerateLoop(S, base_id, base_id, 1, 0, f)

\* tags or []
OrEmpty(tags) == IF Len(tags) = 0 THEN <<>> ELSE tags

\* prep time and cook time stored under each other's name
RecipeData_Swapped(user_id, fields, timestamp) ==
  [title |-> fields.title,
   description |-> fields.description,
   prepTime |-> fields.cook_time,
   cookTime |-> fields.prep_time,
   servings |-> fields.servings,
   ingredients |-> fields.ingredients,
   instructions |-> fields.instructions,
   category |-> fields.category,
   tags |-> fields.tags,
   userId |-> user_id,
   createdAt |-> timestamp]

\* recipe_data of create_recipe; createdAt is the server's timestamp
RecipeData(user_id, fields, timestamp) ==
  [title |-> fields.title,
   description |-> fields.description,
   prepTime |-> fields.prep_time,
   cookTime |-> fields.cook_time,
   servings |-> fields.servings,
   ingredients |-> fields.ingredients,
   instructions |-> fields.instructions,
   category |-> fields.category,
   tags |-> OrEmpty(fields.tags),
   userId |-> user_id,
   createdAt |-> timestamp]

create_recipe(S, user_id, fields, f) ==
  LET g == generate_recipe_id(S, fields.title, user_id, f)
  IN  IF g.exc THEN Raise(S, g.n)
      ELSE IF After(f, g.n) = 1 THEN Raise(S, g.n + 1)
      ELSE [recipes |-> DocSet(S.recipes, g.ret,
                               RecipeData(user_id, fields, S.clock + 1)),
            favorites |-> S.favorites,
            clock |-> S.clock + 1,
            ret |-> g.ret, exc |-> FALSE, n |-> g.n + 1]

\* data = doc.to_dict(); data['id'] = doc.id
WithId(data, id) ==
  [k \in DOMAIN data \cup {"id"} |-> IF k = "id" THEN id ELSE data[k]]

get_recipe(S, recipe_id, f) ==
  IF f = 1 THEN Raise(S, 1)
  ELSE IF DocExists(S.recipes, recipe_id)
    THEN Return(S, WithId(S.recipes[recipe_id], recipe_id), 1)
    ELSE Return(S, None, 1)

\* the ownership check left out
NotOwner_Skipped(data, user_id) == FALSE

\* current.to_dict().get('userId') != user_id
NotOwner(data, user_id) == data.userId # user_id

update_recipe(S, recipe_id, user_id, updates, f) ==
  IF f = 1 THEN Return(S, FALSE, 1)
  ELSE IF ~DocExists(S.recipes, recipe_id) THEN Return(S, FALSE, 1)
  ELSE IF NotOwner(S.recipes[recipe_id], user_id) THEN Return(S, FALSE, 1)
  ELSE IF f = 2 THEN Return(S, FALSE, 2)
  ELSE [recipes |-> DocUpdate(S.recipes, recipe_id, updates),
        favorites |-> S.favorites, clock |-> S.clock,
        ret |-> TRUE, exc |-> FALSE, n |-> 2]

\* f"fav-{user_id}-{recipe_id}"
FavoriteId(user_id, recipe_id) == "fav-" \o user_id \o "-" \o recipe_id

remove_from_favorites(S, recipe_id, user_id, f) ==
  LET favorite_id == FavoriteId(user_id, recipe_id)
  IN  IF f = 1 THEN Return(S, FALSE, 1)
      ELSE IF DocExists(S.favorites, favorite_id)
        THEN IF f = 2 THEN Return(S, FALSE, 2)
             ELSE [recipes |-> S.recipes,
                   favorites |-> DocDelete(S.favorites, favorite_id),
                   clock |-> S.clock,
                   ret |-> TRUE, exc |-> FALSE, n |-> 2]
        ELSE Return(S, FALSE, 1)

\* the favorites delete_recipe removes once the recipe document is gone
DeleteCascade(S, recipe_id, user_id, f) ==
  remove_from_favorites(S, recipe_id, user_id, f)

delete_recipe(S, recipe_id, user_id, f) ==
  IF f = 1 THEN Return(S, FALSE, 1)
  ELSE IF ~DocExists(S.recipes, recipe_id) THEN Return(S, FALSE, 1)
  ELSE IF NotOwner(S.recipes[recipe_id], user_id) THEN Return(S, FALSE, 1)
  ELSE IF f = 2 THEN Return(S, FALSE, 2)
  ELSE LET D == Store(DocDelete(S.recipes, recipe_id), S.favorites, S.clock)
           c == DeleteCascade(D, recipe_id, user_id, After(f, 2))
       IN  [recipes |-> c.recipes, favorites |-> c.favorites, clock |-> c.clock,
            ret |-> TRUE, exc |-> FALSE, n |-> 2 + c.n]

\* An optional string argument (category: str = None) is <<>> for None and
\* <<s>> for the string s.
NoArg == <<>>
Arg(s) == <<s>>

\* if category: / if tag:  (None and the empty string are both falsy)
Given(filter) == filter # NoArg /\ filter[1] # ""

\* the tag filter left out of the query
UserRecipeIds_NoTag(S, user_id, category, tag) ==
  {id \in DOMAIN S.recipes :
     /\ S.recipes[id].userId = user_id
     /\ (category # <<>> /\ category[1] # "") => S.recipes[id].category = category[1]}

\* the documents the query of get_user_recipes selects
UserRecipeIds(S, user_id, category, tag) ==
  {id \in DOMAIN S.recipes :
     /\ S.recipes[id].userId = user_id
     /\ Given(category) => S.recipes[id].category = category[1]
     /\ Given(tag) => tag[1] \in Range(S.recipes[id].tags)}

get_user_recipes(S, user_id, category, tag, f) ==
  IF f = 1 THEN Raise(S, 1)
  ELSE LET docs == Stream(S.recipes, UserRecipeIds(S, user_id, category, tag))
       IN  Return(S, [i \in DOMAIN docs |-> WithId(docs[i].data, docs[i].id)], 1)

\* search_term_lower in title_lower
Contains(s, t) ==
  \E i \in 0..(Len(s) - Len(t)) : SubSeq(s, i + 1, i + Len(t)) = t

search_recipes_by_title(S, user_id, search_term, f) ==
  LET all_recipes == get_user_recipes(S, user_id, NoArg, NoArg, f)
  IN  IF all_recipes.exc THEN Raise(S, all_recipes.n)
      ELSE Return(S, SelectSeq(all_recipes.ret,
                      LAMBDA recipe : Contains(Lower(recipe.title), Lower(search_term))),
                  all_recipes.n)

is_favorited(S, recipe_id, user_id, f) ==
  IF f = 1 THEN Raise(S, 1)
  ELSE Return(S, DocExists(S.favorites, FavoriteId(user_id, recipe_id)), 1)

\* favorite_data of add_to_favorites; addedDate is the server's timestamp
FavoriteData(recipe_id, user_id, notes, timestamp) ==
  [recipeId |-> recipe_id, userId |-> user_id, notes |-> notes,
   addedDate |-> timestamp]

add_to_favorites(S, recipe_id, user_id, notes, f) ==
  LET recipe == get_recipe(S, recipe_id, f)
      fav == is_favorited(S, recipe_id, user_id, After(f, 1))
  IN  IF recipe.exc THEN Return(S, FALSE, 1)
      ELSE IF recipe.ret = None THEN Return(S, FALSE, 1)
      ELSE IF fav.exc THEN Return(S, FALSE, 2)
      ELSE IF fav.ret THEN Return(S, FALSE, 2)
      ELSE IF After(f, 2) = 1 THEN Return(S, FALSE, 3)
      ELSE [recipes |-> S.recipes,
            favorites |-> DocSet(S.favorites, FavoriteId(user_id, recipe_id),
                                 FavoriteData(recipe_id, user_id, notes, S.clock + 1)),
            clock |-> S.clock + 1,
            ret |-> TRUE, exc |-> FALSE, n |-> 3]

\* recipe['favoriteNotes'] = ...; recipe['favoritedDate'] = ...
WithFavorite(recipe, fav_data) ==
  [k \in DOMAIN recipe \cup {"favoriteNotes", "favoritedDate"} |->
     IF k = "favoriteNotes" THEN fav_data.notes
     ELSE IF k = "favoritedDate" THEN fav_data.addedDate
     ELSE recipe[k]]

\* the for loop of get_user_favorites over the documents docs[i..], entered
\* with n remote calls made and the list favs collected
RECURSIVE FavoritesLoop(_, _, _, _, _, _)
FavoritesLoop(S, docs, i, favs, n, f) ==
  IF i > Len(docs) THEN Return(S, favs, n)
  ELSE LET fav_data == docs[i].data
           recipe == get_recipe(S, fav_data.recipeId, After(f, n))
       IN  IF recipe.exc THEN Raise(S, n + 1)
           ELSE IF recipe.ret # None
             THEN FavoritesLoop(S, docs, i + 1,
                                Append(favs, WithFavorite(recipe.ret, fav_data)),
                                n + 1, f)
             ELSE FavoritesLoop(S, docs, i + 1, favs, n + 1, f)

\* the favorites of every user selected
UserFavoriteIds_AllUsers(S, user_id) == DOMAIN S.favorites

\* the documents the query of get_user_favorites selects
UserFavoriteIds(S, user_id) ==
  {k \in DOMAIN S.favorites : S.favorites[k].userId = user_id}

get_user_favorites(S, user_id, f) ==
  IF f = 1 THEN Raise(S, 1)
  ELSE FavoritesLoop(S, Stream(S.favorites, UserFavoriteIds(S, user_id)),
                     1, <<>>, 1, f)

toggle_favorite(S, recipe_id, user_id, f) ==
  LET fav == is_favorited(S, recipe_id, user_id, f)
  IN  IF fav.exc THEN Raise(S, 1)
      ELSE LET r == IF fav.ret
                      THEN remove_from_favorites(S, recipe_id, user_id, After(f, 1))
                      ELSE add_to_favorites(S, recipe_id, user_id, "", After(f, 1))
           IN  [recipes |-> r.recipes, favorites |-> r.favorites, clock |-> r.clock,
                ret |-> r.ret, exc |-> FALSE, n |-> 1 + r.n]

(***************************************************************************)
(* RecipeBookUI: the handlers the menu loop dispatches to.  A handler's    *)
(* outcome carries what it shows in ret.                                   *)
(***************************************************************************)
\* the for loop that looks up the favorite mark of every listed recipe
RECURSIVE FavIconLoop(_, _, _, _, _, _, _)
FavIconLoop(S, user_id, recs, i, shown, n, f) ==
  IF i > Len(recs) THEN Return(S, shown, n)
  ELSE LET is_fav == is_favorited(S, recs[i].id, user_id, After(f, n))
       IN  IF is_fav.exc THEN Raise(S, n + 1)
           ELSE FavIconLoop(S, user_id, recs, i + 1,
                            Append(shown, [id |-> recs[i].id, fav |-> is_fav.ret]),
                            n + 1, f)

view_all_recipes(S, user_id, f) ==
  LET rs == get_user_recipes(S, user_id, NoArg, NoArg, f)
  IN  IF rs.exc THEN Raise(S, rs.n)
      ELSE FavIconLoop(S, user_id, rs.ret, 1, <<>>, rs.n, f)

view_recipe_details(S, user_id, recipe_id, f) ==
  LET recipe == get_recipe(S, recipe_id, f)
      is_fav == is_favorited(S, recipe_id, user_id, After(f, 1))
  IN  IF recipe.exc THEN Raise(S, 1)
      ELSE IF recipe.ret = None THEN Return(S, <<"Recipe not found!">>, 1)
      ELSE IF is_fav.exc THEN Raise(S, 2)
      ELSE Return(S, <<[id |-> recipe_id, fav |-> is_fav.ret]>>, 2)

\* text is the line typed at the second prompt: a category or a tag (a
\* string) for choices '1' and '2', a title keyword (characters) for '3'
search_recipes(S, user_id, choice, text, f) ==
  LET rs == IF choice = "1" THEN get_user_recipes(S, user_id, Arg(text), NoArg, f)
            ELSE IF choice = "2" THEN get_user_recipes(S, user_id, NoArg, Arg(text), f)
            ELSE search_recipes_by_title(S, user_id, text, f)
  IN  IF choice \notin {"1", "2", "3"} THEN Return(S, <<"Invalid choice!">>, 0)
      ELSE IF rs.exc THEN Raise(S, rs.n)
      ELSE FavIconLoop(S, user_id, rs.ret, 1, <<>>, rs.n, f)

toggle_favorite_interactive(S, user_id, recipe_id, confirm, notes, f) ==
  LET recipe == get_recipe(S, recipe_id, f)
      is_currently_fav == is_favorited(S, recipe_id, user_id, After(f, 1))
  IN  IF recipe.exc THEN Raise(S, 1)
      ELSE IF recipe.ret = None THEN Return(S, "Recipe not found!", 1)
      ELSE IF is_currently_fav.exc THEN Raise(S, 2)
      ELSE IF confirm # "yes" THEN Return(S, "", 2)
      ELSE LET r == IF is_currently_fav.ret
                      THEN remove_from_favorites(S, recipe_id, user_id, After(f, 2))
                      ELSE add_to_favorites(S, recipe_id, user_id, notes, After(f, 2))
               msg == IF is_currently_fav.ret
                        THEN IF r.ret THEN "Removed from favorites!"
                                      ELSE "Failed to remove from favorites!"
                        ELSE IF r.ret THEN "Added to favorites!"
                                      ELSE "Failed to add to favorites!"
           IN  [recipes |-> r.recipes, favorites |-> r.favorites, clock |-> r.clock,
                ret |-> msg, exc |-> FALSE, n |-> 2 + r.n]

view_favorites(S, user_id, f) ==
  LET favs == get_user_favorites(S, user_id, f)
  IN  IF favs.exc THEN Raise(S, favs.n)
      ELSE Return(S, [i \in DOMAIN favs.ret |-> favs.ret[i].id], favs.n)

(***************************************************************************)
(* The inputs the model draws from.                                        *)
(***************************************************************************)
\* user_id of main, and a second user of the same store
SessionUser == "Pward20"
OtherUser == "Pward20-pizza"
Users == {SessionUser, OtherUser}

\* what create_recipe is called with (without user_id)
RecipeInputs ==
  { [title |-> <<"P","i","z","z","a">>,
     description |-> "thin crust", prep_time |-> 20, cook_time |-> 15,
     servings |-> 4, ingredients |-> <<"flour", "water">>,
     instructions |-> <<"bake">>, category |-> "Main",
     tags |-> <<"italian", "quick">>],
    [title |-> <<"P","i","z","z","a","!","!">>,
     description |-> "sweet", prep_time |-> 5, cook_time |-> 0,
     servings |-> 1, ingredients |-> <<"cream">>,
     instructions |-> <<"whip", "chill">>, category |-> "Dessert",
     tags |-> <<"quick">>],
    [title |-> <<" ","P","i","z","z","a"," "," ","P","I","Z","Z","A">>,
     description |-> "double", prep_time |-> 30, cook_time |-> 25,
     servings |-> 8, ingredients |-> <<"dough">>,
     instructions |-> <<"fold", "bake">>, category |-> "Main",
     tags |-> <<>>] }

Titles == {fields.title : fields \in RecipeInputs}

\* partial field mappings given to update_recipe
UpdateInputs ==
  { [description |-> "extra cheese", servings |-> 6],
    [userId |-> OtherUser] }

CategoryArgs == {NoArg, Arg(""), Arg("Main")}
TagArgs == {NoArg, Arg("quick")}
SearchTerms == { <<"z","Z">>, <<"x">> }
NotesArgs == {"weekend"}

Fails == 0..MaxFail

\* the store of the current state
Cur == Store(recipes, favorites, clock)

\* recipe ids a caller may name: those of documents present or referenced,
\* and the base ids of the titles
BaseIds == {SlugBase(t) : t \in Titles}
RecipeIdArgs ==
  DOMAIN recipes \cup {favorites[k].recipeId : k \in DOMAIN favorites}
                 \cup BaseIds

(***************************************************************************)
(* The state machine.  recipes and favorites are the two collections and   *)
(* clock the server's timestamp counter.  last is the last operation that  *)
(* wrote to the store, with its arguments, its result and whether one of   *)
(* its remote calls failed.  ui is the console session: pc is "menu" in    *)
(* the loop of run, "exited" after run returned and "error" after an       *)
(* exception left run and main reported it; choice is the line read at the *)
(* last turn of the loop and failed whether a remote call failed in it.    *)
(***************************************************************************)
Init ==
  /\ recipes = <<>>
  /\ favorites = <<>>
  /\ clock = 0
  /\ last = [op |-> "init"]
  /\ ui = [pc |-> "menu", choice |-> "", failed |-> FALSE]

\* whether the outcome r left a write in the store
Wrote(r) == r.recipes # recipes \/ r.favorites # favorites

\* whether the f-th remote call of the operation with outcome r was made,
\* and so failed
Failed(r, f) == f # 0 /\ f <= r.n

\* the store takes the outcome r, within the bounds of the model, and last
\* takes the label of the operation if it wrote
Apply(r, label) ==
  /\ r.clock <= MaxClock
  /\ Cardinality(DOMAIN r.recipes) <= MaxRecipes
  /\ recipes' = r.recipes
  /\ favorites' = r.favorites
  /\ clock' = r.clock
  /\ last' = IF Wrote(r) THEN label ELSE last

CreateRecipe ==
  \E user_id \in Users, fields \in RecipeInputs, f \in Fails :
    LET r == create_recipe(Cur, user_id, fields, f)
    IN  /\ Apply(r, [op |-> "create_recipe", user_id |-> user_id,
                     title |-> fields.title, ret |-> r.ret, failed |-> Failed(r, f)])
        /\ UNCHANGED ui

GetRecipe ==
  \E recipe_id \in RecipeIdArgs, f \in 0..1 :
    LET r == get_recipe(Cur, recipe_id, f)
    IN  /\ Apply(r, last)
        /\ UNCHANGED ui

UpdateRecipe ==
  \E recipe_id \in RecipeIdArgs, user_id \in Users, updates \in UpdateInputs,
     f \in Fails :
    LET r == update_recipe(Cur, recipe_id, user_id, updates, f)
    IN  /\ Apply(r, [op |-> "update_recipe", recipe_id |-> recipe_id,
                     user_id |-> user_id, ret |-> r.ret, failed |-> Failed(r, f)])
        /\ UNCHANGED ui

DeleteRecipe ==
  \E recipe_id \in RecipeIdArgs, user_id \in Users, f \in Fails :
    LET r == delete_recipe(Cur, recipe_id, user_id, f)
    IN  /\ Apply(r, [op |-> "delete_recipe", recipe_id |-> recipe_id,
                     user_id |-> user_id, ret |-> r.ret, failed |-> Failed(r, f)])
        /\ UNCHANGED ui

GetUserRecipes ==
  \E user_id \in Users, category \in CategoryArgs, tag \in TagArgs, f \in 0..1 :
    LET r == get_user_recipes(Cur, user_id, category, tag, f)
    IN  /\ Apply(r, last)
        /\ UNCHANGED ui

SearchRecipesByTitle ==
  \E user_id \in Users, search_term \in SearchTerms, f \in 0..1 :
    LET r == search_recipes_by_title(Cur, user_id, search_term, f)
    IN  /\ Apply(r, last)
        /\ UNCHANGED ui

AddToFavorites ==
  \E recipe_id \in RecipeIdArgs, user_id \in Users, notes \in NotesArgs,
     f \in Fails :
    LET r == add_to_favorites(Cur, recipe_id, user_id, notes, f)
    IN  /\ Apply(r, [op |-> "add_to_favorites", recipe_id |-> recipe_id,
                     user_id |-> user_id, ret |-> r.ret, failed |-> Failed(r, f)])
        /\ UNCHANGED ui

RemoveFromFavorites ==
  \E recipe_id \in RecipeIdArgs, user_id \in Users, f \in Fails :
    LET r == remove_from_favorites(Cur, recipe_id, user_id, f)
    IN  /\ Apply(r, [op |-> "remove_from_favorites", recipe_id |-> recipe_id,
                     user_id |-> user_id, ret |-> r.ret, failed |-> Failed(r, f)])
        /\ UNCHANGED ui

IsFavorited ==
  \E recipe_id \in RecipeIdArgs, user_id \in Users, f \in 0..1 :
    LET r == is_favorited(Cur, recipe_id, user_id, f)
    IN  /\ Apply(r, last)
        /\ UNCHANGED ui

GetUserFavorites ==
  \E user_id \in Users, f \in Fails :
    LET r == get_user_favorites(Cur, user_id, f)
    IN  /\ Apply(r, last)
        /\ UNCHANGED ui

ToggleFavorite ==
  \E recipe_id \in RecipeIdArgs, user_id \in Users, f \in Fails :
    LET r == toggle_favorite(Cur, recipe_id, user_id, f)
    IN  /\ Apply(r, [op |-> "toggle_favorite", recipe_id |-> recipe_id,
                     user_id |-> user_id, ret |-> r.ret, failed |-> Failed(r, f)])
        /\ UNCHANGED ui

(***************************************************************************)
(* RecipeBookUI.run: one action per branch of the menu loop.  Each is one  *)
(* turn of the loop: the menu is shown, a choice is read, the handler runs *)
(* to its end.  An exception that leaves a handler leaves run too and is   *)
(* reported by main, which then returns.                                   *)
(***************************************************************************)
\* the loop read choice, and the handler of the turn ended with outcome r
\* under failure index f
Dispatched(choice, r, f, label) ==
  /\ Apply(r, label)
  /\ ui' = [pc |-> IF r.exc THEN "error" ELSE "menu", choice |-> choice,
            failed |-> Failed(r, f)]

\* the methods RecipeBookUI defines
UIMethods ==
  {"add_recipe", "view_all_recipes", "view_recipe_details", "search_recipes",
   "update_recipe", "delete_recipe", "toggle_favorite_interactive",
   "view_favorites"}

\* the method run calls for a choice
HandlerName(choice) ==
  CASE choice = "1" -> "add_recipe_interactive"
    [] choice = "2" -> "view_all_recipes"
    [] choice = "3" -> "view_recipe_details"
    [] choice = "4" -> "search_recipes"
    [] choice = "5" -> "update_recipe_interactive"
    [] choice = "6" -> "delete_recipe_interactive"
    [] choice = "7" -> "toggle_favorite_interactive"
    [] choice = "8" -> "view_favorites"

\* self.<name>() for a name the class does not define raises AttributeError
\* before anything of a handler has run
RunUndefinedHandler ==
  \E choice \in {"1", "2", "3", "4", "5", "6", "7", "8"} :
    /\ ui.pc = "menu"
    /\ HandlerName(choice) \notin UIMethods
    /\ Dispatched(choice, Raise(Cur, 0), 0, last)

RunViewAllRecipes ==
  \E f \in Fails :
    /\ ui.pc = "menu"
    /\ HandlerName("2") \in UIMethods
    /\ Dispatched("2", view_all_recipes(Cur, SessionUser, f), f, last)

RunViewRecipeDetails ==
  \E recipe_id \in RecipeIdArgs, f \in Fails :
    /\ ui.pc = "menu"
    /\ HandlerName("3") \in UIMethods
    /\ Dispatched("3", view_recipe_details(Cur, SessionUser, recipe_id, f), f, last)

RunSearchRecipes ==
  \E choice \in {"1", "2", "3", "4"}, f \in Fails :
    \E text \in IF choice = "1" THEN {"", "Main"}
                ELSE IF choice = "2" THEN {"quick"}
                ELSE SearchTerms :
      /\ ui.pc = "menu"
      /\ HandlerName("4") \in UIMethods
      /\ Dispatched("4", search_recipes(Cur, SessionUser, choice, text, f), f, last)

RunToggleFavorite ==
  \E recipe_id \in RecipeIdArgs, confirm \in {"yes", "no"}, f \in Fails :
    LET r == toggle_favorite_interactive(Cur, SessionUser, recipe_id, confirm,
                                         "weekend", f)
    IN  /\ ui.pc = "menu"
        /\ HandlerName("7") \in UIMethods
        /\ Dispatched("7", r, f, [op |-> "toggle_favorite_interactive",
                          recipe_id |-> recipe_id, user_id |-> SessionUser,
                          ret |-> r.ret, failed |-> Failed(r, f)])

RunViewFavorites ==
  \E f \in Fails :
    /\ ui.pc = "menu"
    /\ HandlerName("8") \in UIMethods
    /\ Dispatched("8", view_favorites(Cur, SessionUser, f), f, last)

\* choice '9': the farewell is printed and the loop breaks
RunExit ==
  /\ ui.pc = "menu"
  /\ ui' = [pc |-> "exited", choice |-> "9", failed |-> FALSE]
  /\ UNCHANGED <<recipes, favorites, clock, last>>

\* any other line: the complaint is printed and the loop goes on
RunInvalidOption ==
  \E choice \in {"0", "exit"} :
    /\ ui.pc = "menu"
    /\ Dispatched(choice, Return(Cur, "Invalid option!", 0), 0, last)

Next ==
  \/ CreateRecipe
  \/ GetRecipe
  \/ UpdateRecipe
  \/ DeleteRecipe
  \/ GetUserRecipes
  \/ SearchRecipesByTitle
  \/ AddToFavorites
  \/ RemoveFromFavorites
  \/ IsFavorited
  \/ GetUserFavorites
  \/ ToggleFavorite

\* the callers of the store, the console session idle at its menu
Spec == Init /\ [][Next]_vars

\* the console session, over a store that other callers add recipes to
NextUI ==
  \/ CreateRecipe
  \/ RunUndefinedHandler
  \/ RunViewAllRecipes
  \/ RunViewRecipeDetails
  \/ RunSearchRecipes
  \/ RunToggleFavorite
  \/ RunViewFavorites
  \/ RunExit
  \/ RunInvalidOption

SpecUI == Init /\ [][NextUI]_vars

(***************************************************************************)
(* Properties.                                                             *)
(***************************************************************************)
\* the store an outcome leaves
StoreOf(r) == Store(r.recipes, r.favorites, r.clock)

\* whether the outcome r leaves the collections as they are
Untouched(r) == r.recipes = recipes /\ r.favorites = favorites

\* C1: in every reachable store state, update_recipe and delete_recipe called
\* by a user other than the owner stored on the recipe return failure and
\* leave every recipe and every favorite record as it was.
C1_NonOwnerIsRefused ==
  \A recipe_id \in DOMAIN recipes, user_id \in Users :
    recipes[recipe_id].userId # user_id =>
      /\ \A updates \in UpdateInputs :
           LET r == update_recipe(Cur, recipe_id, user_id, updates, 0)
           IN  r.ret = FALSE /\ ~r.exc /\ Untouched(r)
      /\ LET r == delete_recipe(Cur, recipe_id, user_id, 0)
         IN  r.ret = FALSE /\ ~r.exc /\ Untouched(r)

\* a recipe owned by one user and favorited by another, who is refused
C1_Witness ==
  \E recipe_id \in DOMAIN recipes, user_id \in Users :
    /\ recipes[recipe_id].userId # user_id
    /\ FavoriteId(user_id, recipe_id) \in DOMAIN favorites
    /\ last.op = "add_to_favorites"
    /\ delete_recipe(Cur, recipe_id, user_id, 0).ret = FALSE
    /\ \A updates \in UpdateInputs :
         update_recipe(Cur, recipe_id, user_id, updates, 0).ret = FALSE

\* C2: after a successful delete_recipe(id, owner), none of whose remote
\* calls failed, no favorite record references id, whichever user made it.
C2_DeleteRemovesEveryFavorite ==
  (last.op = "delete_recipe" /\ last.ret = TRUE /\ ~last.failed) =>
    \A k \in DOMAIN favorites : favorites[k].recipeId # last.recipe_id

\* C3: two toggle_favorite(r, u) calls in a row leave is_favorited(r, u) as
\* it was before the first, for every user and every recipe id.
C3_ToggleTwiceRestores ==
  \A recipe_id \in RecipeIdArgs, user_id \in Users :
    LET t1 == toggle_favorite(Cur, recipe_id, user_id, 0)
        t2 == toggle_favorite(StoreOf(t1), recipe_id, user_id, 0)
    IN  is_favorited(StoreOf(t2), recipe_id, user_id, 0).ret
          = is_favorited(Cur, recipe_id, user_id, 0).ret

\* the title "Pizza" and the title "Pizza!!" of the example
Pizza == <<"P","i","z","z","a">>
PizzaBang == <<"P","i","z","z","a","!","!">>

\* C4: create_recipe returns an id that was absent from the store: the slug
\* base of the title when that is absent, else base-k for the least k >= 1
\* whose base-k is absent; the id depends on the title and the set of
\* existing ids only; the recipes stored before are unchanged ("Pizza" then
\* "Pizza!!" give "pizza" then "pizza-1").
C4_FreshLeastId ==
  \A user_id \in Users, fields \in RecipeInputs :
    LET r == create_recipe(Cur, user_id, fields, 0)
        base == SlugBase(fields.title)
        ids == DOMAIN recipes
        blank == Store([id \in ids |-> None], <<>>, 0)
    IN  /\ ~r.exc
        /\ r.ret \notin ids
        /\ base \notin ids => r.ret = base
        /\ base \in ids =>
             \E k \in 1..(Cardinality(ids) + 1) :
               /\ r.ret = base \o "-" \o ToString(k)
               /\ \A j \in 1..(k - 1) : (base \o "-" \o ToString(j)) \in ids
        /\ DOMAIN r.recipes = ids \cup {r.ret}
        /\ \A id \in ids : r.recipes[id] = recipes[id]
        /\ \A other \in Users :
             generate_recipe_id(blank, fields.title, other, 0).ret = r.ret
        /\ fields.title \in {Pizza, PizzaBang} =>
             /\ "pizza" \notin ids => r.ret = "pizza"
             /\ ("pizza" \in ids /\ "pizza-1" \notin ids) => r.ret = "pizza-1"

\* "Pizza!!" has just been created beside "pizza" and got the id "pizza-1"
C4_Witness ==
  /\ last.op = "create_recipe"
  /\ last.title = PizzaBang
  /\ last.ret = "pizza-1"
  /\ "pizza" \in DOMAIN recipes
  /\ recipes["pizza"].title = Pizza
  /\ recipes["pizza-1"].title = PizzaBang

\* C5: get_recipe on the id create_recipe returned yields a record whose
\* title, description, prep time, cook time, servings, ingredients,
\* instructions, category, tags and owning user are the submitted values.
C5_CreateThenGet ==
  \A user_id \in Users, fields \in RecipeInputs :
    LET c == create_recipe(Cur, user_id, fields, 0)
        g == get_recipe(StoreOf(c), c.ret, 0)
    IN  /\ ~c.exc /\ ~g.exc
        /\ g.ret # None
        /\ g.ret.id = c.ret
        /\ g.ret.title = fields.title
        /\ g.ret.description = fields.description
        /\ g.ret.prepTime = fields.prep_time
        /\ g.ret.cookTime = fields.cook_time
        /\ g.ret.servings = fields.servings
        /\ g.ret.ingredients = fields.ingredients
        /\ g.ret.instructions = fields.instructions
        /\ g.ret.category = fields.category
        /\ g.ret.tags = fields.tags
        /\ g.ret.userId = user_id

\* a recipe has just been created under a suffixed id, and get_recipe finds
\* it with the title and the owner it was created with
C5_Witness ==
  /\ last.op = "create_recipe"
  /\ last.ret \notin BaseIds
  /\ LET g == get_recipe(Cur, last.ret, 0)
     IN  /\ g.ret # None
         /\ g.ret.title = last.title
         /\ g.ret.userId = last.user_id
         /\ g.ret.prepTime # g.ret.cookTime

\* C6: when a remote call fails during an operation of the store, no
\* exception reaches the caller.
C6_NoExceptionReachesCaller ==
  \A f \in Fails, user_id \in Users :
    /\ \A fields \in RecipeInputs : ~create_recipe(Cur, user_id, fields, f).exc
    /\ ~get_user_favorites(Cur, user_id, f).exc
    /\ \A search_term \in SearchTerms :
         ~search_recipes_by_title(Cur, user_id, search_term, f).exc
    /\ \A category \in CategoryArgs, tag \in TagArgs :
         ~get_user_recipes(Cur, user_id, category, tag, f).exc
    /\ \A recipe_id \in RecipeIdArgs :
         /\ ~get_recipe(Cur, recipe_id, f).exc
         /\ ~is_favorited(Cur, recipe_id, user_id, f).exc
         /\ ~toggle_favorite(Cur, recipe_id, user_id, f).exc
         /\ ~delete_recipe(Cur, recipe_id, user_id, f).exc
         /\ ~remove_from_favorites(Cur, recipe_id, user_id, f).exc
         /\ \A notes \in NotesArgs :
              ~add_to_favorites(Cur, recipe_id, user_id, notes, f).exc
         /\ \A updates \in UpdateInputs :
              ~update_recipe(Cur, recipe_id, user_id, updates, f).exc

\* C7: when no remote call fails, the loop of run ends only on choice '9':
\* every other choice returns to the menu.
C7_LoopEndsOnlyOnExit ==
  (ui.pc # "menu" /\ ~ui.failed) => ui.choice = "9"

\* C8: as long as a recipe exists, the owner stored on it does not change.
C8_OwnerNeverChanges ==
  [][\A recipe_id \in DOMAIN recipes \cap DOMAIN recipes' :
       recipes'[recipe_id].userId = recipes[recipe_id].userId]_vars

\* the entries of a list of recipes that carry the id recipe_id
EntriesOf(list, recipe_id) == {i \in DOMAIN list : list[i].id = recipe_id}

\* C9: get_user_favorites(u) returns exactly one entry for each favorite
\* record of u whose recipe exists, joined to that recipe, and no entry for
\* a favorite whose recipe is absent; after a delete_recipe(id) that
\* succeeded, no user's list holds id.
C9_FavoritesJoin ==
  \A user_id \in Users :
    LET favs == get_user_favorites(Cur, user_id, 0).ret
        mine == {k \in DOMAIN favorites : favorites[k].userId = user_id}
        live == {k \in mine : favorites[k].recipeId \in DOMAIN recipes}
    IN  /\ Len(favs) = Cardinality(live)
        /\ \A k \in live :
             \E i \in DOMAIN favs :
               /\ EntriesOf(favs, favorites[k].recipeId) = {i}
               /\ favs[i].title = recipes[favorites[k].recipeId].title
               /\ favs[i].userId = recipes[favorites[k].recipeId].userId
               /\ favs[i].favoriteNotes = favorites[k].notes
               /\ favs[i].favoritedDate = favorites[k].addedDate
        /\ \A k \in mine \ live : EntriesOf(favs, favorites[k].recipeId) = {}
        /\ (last.op = "delete_recipe" /\ last.ret = TRUE) =>
             EntriesOf(favs, last.recipe_id) = {}

\* a recipe has just been deleted, a favorite record of it is still there,
\* and the list of the user who made it does not hold it
C9_Witness ==
  /\ last.op = "delete_recipe"
  /\ last.ret = TRUE
  /\ \E k \in DOMAIN favorites :
       /\ favorites[k].recipeId = last.recipe_id
       /\ get_user_favorites(Cur, favorites[k].userId, 0).ret = <<>>

\* a user's list holds the one recipe the user has favorited, another
\* user's recipe
C9_LiveWitness ==
  \E user_id \in Users :
    LET favs == get_user_favorites(Cur, user_id, 0).ret
    IN  /\ Len(favs) = 1
        /\ favs[1].userId # user_id
        /\ favs[1].favoriteNotes = "weekend"

\* the recipes of user_id that pass the filters, a filter being applied
\* when applies(filter) holds
Matching(user_id, category, tag, applies(_)) ==
  {id \in DOMAIN recipes :
     /\ recipes[id].userId = user_id
     /\ applies(category) => recipes[id].category = category[1]
     /\ applies(tag) => \E i \in DOMAIN recipes[id].tags :
                          recipes[id].tags[i] = tag[1]}

\* whether a list of recipes holds exactly the recipes ids, each once and
\* as stored
ListsExactly(list, ids) ==
  /\ Len(list) = Cardinality(ids)
  /\ \A id \in ids :
       \E i \in DOMAIN list :
         /\ EntriesOf(list, id) = {i}
         /\ list[i].title = recipes[id].title
         /\ list[i].category = recipes[id].category
         /\ list[i].tags = recipes[id].tags

IsPassed(filter) == filter # NoArg
IsPassedNonEmpty(filter) == filter # NoArg /\ filter # Arg("")

\* C10 as claimed: get_user_recipes returns exactly the recipes of the user
\* whose category equals the category passed and whose tags hold the tag
\* passed, a filter that is not passed imposing no constraint.
C10_FiltersAsClaimed ==
  \A user_id \in Users, category \in CategoryArgs, tag \in TagArgs :
    ListsExactly(get_user_recipes(Cur, user_id, category, tag, 0).ret,
                 Matching(user_id, category, tag, IsPassed))

\* C10 amended: the same, a filter that is not passed or is the empty
\* string imposing no constraint.
C10_FiltersAmended ==
  \A user_id \in Users, category \in CategoryArgs, tag \in TagArgs :
    ListsExactly(get_user_recipes(Cur, user_id, category, tag, 0).ret,
                 Matching(user_id, category, tag, IsPassedNonEmpty))

\* a user owns two recipes of the category "Main", one tagged "quick": both
\* filters together return that one, the category alone both, and the empty
\* category both
C10_Witness ==
  \E user_id \in Users :
    /\ Len(get_user_recipes(Cur, user_id, Arg("Main"), Arg("quick"), 0).ret) = 1
    /\ Len(get_user_recipes(Cur, user_id, Arg("Main"), NoArg, 0).ret) = 2
    /\ Len(get_user_recipes(Cur, user_id, Arg(""), NoArg, 0).ret) = 2

\* C11: two different (user id, recipe id) pairs never share a favorite
\* record: add_to_favorites and remove_from_favorites on a pair (u2, r2),
\* when they succeed, make is_favorited(r2, u2) true and false, and they
\* leave is_favorited(r, u) of every other pair (u, r) as it was, hyphens
\* in the ids or not.
C11_PairsDoNotShareFavorites ==
  \A u \in Users, u2 \in Users, r \in RecipeIdArgs, r2 \in RecipeIdArgs :
    LET a == add_to_favorites(Cur, r2, u2, "weekend", 0)
        d == remove_from_favorites(Cur, r2, u2, 0)
        before == is_favorited(Cur, r, u, 0).ret
    IN  /\ a.ret => is_favorited(StoreOf(a), r2, u2, 0).ret
        /\ d.ret => ~is_favorited(StoreOf(d), r2, u2, 0).ret
        /\ <<u, r>> # <<u2, r2>> =>
             /\ is_favorited(StoreOf(a), r, u, 0).ret = before
             /\ is_favorited(StoreOf(d), r, u, 0).ret = before

\* C12: get_user_favorites never returns a favorite record made for a recipe
\* that has since been deleted, even when a later create_recipe took the
\* deleted recipe's id: every entry's favorite was added to the recipe the
\* entry shows, so not before that recipe was created.
C12_DeletedFavoriteNeverListed ==
  \A user_id \in Users :
    LET favs == get_user_favorites(Cur, user_id, 0).ret
    IN  \A i \in DOMAIN favs : favs[i].favoritedDate >= favs[i].createdAt

====
